---- MODULE Spec2Model ----
(***************************************************************************)
(* Model of final_script_for_clone_and_push_v2.py: the checkpoint ledger   *)
(* (load_checkpoint / save_checkpoint), the retry wrapper                  *)
(* (retry_subprocess), the branch loop (migrate_specific_branches) and the *)
(* orchestrator (clone_and_push_repositories) driven once per process by   *)
(* main().  The remote systems (TFS listing, GitHub existence check, git)  *)
(* are the environment: their answers are nondeterministic inputs.         *)
(***************************************************************************)
EXTENDS Integers, Sequences, FiniteSets, TLC

\* ---- bounds of the model ------------------------------------------------
Collections == {"org1"}
Projects == {"p1"}
Repos == {"r1", "r2"}
LedgerCollections == {"org1", "org2"}   \* collections of direct save_checkpoint calls
LedgerProjects == {"p1", "p2"}          \* projects of direct save_checkpoint calls
Branches == {"main", "dev"}
MaxBranches == 2      \* longest explicit branch list of a configuration
MaxRetries == 4       \* largest retry bound of a direct retry_subprocess call
MaxFailures == 3      \* failed command invocations the environment produces in one run

\* ---- program constants --------------------------------------------------
DefaultRetriesFour == 3 + 1   \* mutant: one more attempt than retries=3
DefaultRetries == 3   \* retry_subprocess(command, retries=3)
HttpOk == 200         \* response.status_code == 200
HttpStatuses == {200, 404}

\* ---- values -------------------------------------------------------------
NoBranch == "-"

\* specific_branches: the string "all" or a list of branch names
All == [all |-> TRUE, list |-> << >>]      \* config.get("specific_branches", "all")
BranchList(l) == [all |-> FALSE, list |-> l]
BranchLists == UNION {[1..n -> Branches] : n \in 0..MaxBranches}
Selectors == {All} \cup {BranchList(l) : l \in BranchLists}

Pow2Linear(n) == 2 * n    \* mutant: 2 * attempt
Pow2(n) == 2 ^ n      \* 2 ** attempt

\* an argument vector handed to subprocess.run
Cmd(name, src, dst) == [name |-> name, src |-> src, dst |-> dst]
NoCmd == Cmd("none", NoBranch, NoBranch)

\* mutant: the mirror clone without --mirror
CloneMirrorCmdPlain == Cmd("clone", NoBranch, NoBranch)
\* ["git", "clone", "--mirror", azure_repo_url, repo_dir]
CloneMirrorCmd == Cmd("clone_mirror", NoBranch, NoBranch)
\* ["git", "clone", azure_repo_url, repo_dir]
CloneCmd == Cmd("clone", NoBranch, NoBranch)
\* ["git", "push", "--mirror", github_repo_url]
PushMirrorCmd == Cmd("push_mirror", NoBranch, NoBranch)
\* ["git", "fetch", "origin", branch]
FetchCmd(branch) == Cmd("fetch", branch, NoBranch)
\* mutant: every branch is pushed to refs/heads/main
PushCmdToMain(branch) == Cmd("push", branch, "main")
\* ["git", "push", github_repo_url, f"refs/remotes/origin/{branch}:refs/heads/{branch}"]
PushCmd(branch) == Cmd("push", branch, branch)

DirectCommands == {FetchCmd(b) : b \in Branches} \cup {PushCmd(b) : b \in Branches}
                    \cup {PushMirrorCmd}

\* one observable effect of the running operation
Ev(kind, name, src, dst, ok) ==
    [kind |-> kind, name |-> name, src |-> src, dst |-> dst, ok |-> ok]
CmdEv(cmd, ok) == Ev("cmd", cmd.name, cmd.src, cmd.dst, ok)
WriteEv(name) == Ev("write", name, NoBranch, NoBranch, TRUE)
HttpEv(name, ok) == Ev("http", name, NoBranch, NoBranch, ok)
\* the listing call: its status, and whether tfs_repo is among the listed names
ListingEv(statusOk, found) ==
    Ev("http", "listing", IF found THEN "found" ELSE "absent", NoBranch, statusOk)
ReadEv == Ev("read", "ledger", NoBranch, NoBranch, TRUE)
ChdirEv(name) == Ev("chdir", name, NoBranch, NoBranch, TRUE)

\* ---- the ledger document: collection -> project -> list of repo names ----
EmptyDoc == << >>

\* mutant: only the first name of the list is compared
InListFirst(list, x) == Len(list) > 0 /\ list[1] = x
InList(list, x) == \E i \in 1..Len(list) : list[i] = x

\* collection_name in checkpoint and azure_project in checkpoint[collection_name]
\*   and repo_name in checkpoint[collection_name][azure_project]
Contains(doc, c, p, r) ==
    /\ c \in DOMAIN doc
    /\ p \in DOMAIN doc[c]
    /\ InList(doc[c][p], r)

\* d[k] = v for a dict d, adding the key when it is new
Put(d, k, v) == [x \in (DOMAIN d) \cup {k} |-> IF x = k THEN v ELSE d[x]]

\* if collection_name not in checkpoint: checkpoint[collection_name] = {}
WithCollection(doc, c) == IF c \in DOMAIN doc THEN doc ELSE Put(doc, c, EmptyDoc)

\* if project_name not in checkpoint[collection_name]: checkpoint[...][project_name] = []
WithProject(doc, c, p) ==
    IF p \in DOMAIN doc[c] THEN doc ELSE Put(doc, c, Put(doc[c], p, << >>))

\* checkpoint[collection_name][project_name].append(repo_name)
AppendRepo(doc, c, p, r) == Put(doc, c, Put(doc[c], p, Append(doc[c][p], r)))

\* the document save_checkpoint holds before its membership test
Prepared(doc, c, p) == WithProject(WithCollection(doc, c), c, p)

\* mutant: the membership test is dropped
NeedsRecordAlways(doc, c, p, r) == TRUE
\* if repo_name not in checkpoint[collection_name][project_name]
NeedsRecord(doc, c, p, r) == ~InList(Prepared(doc, c, p)[c][p], r)

\* the document save_checkpoint dumps when it writes
Recorded(doc, c, p, r) == AppendRepo(Prepared(doc, c, p), c, p, r)

\* every (collection, project, repo) a document holds
Entries(doc) ==
    {k \in LedgerCollections \X LedgerProjects \X Repos : Contains(doc, k[1], k[2], k[3])}

\* ---- the JSON text of the ledger file ------------------------------------
\* An object is written as its key/value pairs in order, a list as its items.

\* the keys of a dict in the order json.dump iterates them
KeySeq(S) ==
    CHOOSE s \in [1..Cardinality(S) -> S] : \A x \in S : \E i \in 1..Cardinality(S) : s[i] = x

\* json.dump of a project -> list-of-repo-names dict
DumpProjects(m) ==
    LET ks == KeySeq(DOMAIN m)
    IN [i \in 1..Len(ks) |-> <<ks[i], m[ks[i]]>>]

\* mutant: only one collection of the document reaches the file
JsonDumpOneCollection(doc) ==
    LET ks == KeySeq(DOMAIN doc)
    IN [i \in 1..(IF Len(ks) > 0 THEN 1 ELSE 0) |-> <<ks[i], DumpProjects(doc[ks[i]])>>]

\* json.dump(checkpoint, file, indent=4)
JsonDump(doc) ==
    LET ks == KeySeq(DOMAIN doc)
    IN [i \in 1..Len(ks) |-> <<ks[i], DumpProjects(doc[ks[i]])>>]

\* the value json.load gives a key of an object: that of its last pair
LastValue(pairs, k) ==
    pairs[CHOOSE i \in 1..Len(pairs) :
              pairs[i][1] = k /\ \A j \in (i + 1)..Len(pairs) : pairs[j][1] # k][2]

\* json.load of a project -> list-of-repo-names object
LoadProjects(pairs) ==
    [k \in {pairs[i][1] : i \in 1..Len(pairs)} |-> LastValue(pairs, k)]

\* json.load(file)
JsonLoad(text) ==
    [k \in {text[i][1] : i \in 1..Len(text)} |-> LoadProjects(LastValue(text, k))]

VARIABLES
    pc,           \* position of the process
    op,           \* the operation running or last run: "run", "retry", "load", "save"
    outcome,      \* how the operation ended, "running" while it runs
    cfg,          \* configuration of the run
    fileExists,   \* os.path.exists(CHECKPOINT_FILE)
    ledger,       \* the JSON text in CHECKPOINT_FILE
    fileTorn,     \* CHECKPOINT_FILE holds an incomplete JSON text
    lastDumped,   \* the mapping handed to the last json.dump
    checkpoint,   \* the mapping load_checkpoint returned to the orchestrator
    dirExists,    \* os.path.exists(repo_dir)
    hadDir,       \* os.path.exists(repo_dir) when the run started
    cwd,          \* process working directory: "start", "repo", "base"
    rs,           \* the retry_subprocess call: command, retries, attempt, return point
    rstatus,      \* "none", "running", "returned", "raised"
    inv,          \* invocations of the command by the retry_subprocess call
    delays,       \* the time.sleep arguments of the retry_subprocess call, in order
    bi,           \* branches consumed by the loop of migrate_specific_branches
    caught,       \* the except clause of the orchestrator ran
    failures,     \* failed invocations so far in this operation
    trace,        \* effects of the operation, in order
    startFile,    \* the ledger file when the operation started
    rerun,        \* an earlier run of this (collection, project, repo) was checkpointed
    completed,    \* keys whose run went through the clone/push step
    pushedOk,     \* keys whose push step ran to its end without an error
    everPersisted \* every key the ledger file has held

vars == <<pc, op, outcome, cfg, fileExists, ledger, fileTorn, lastDumped, checkpoint, dirExists, hadDir, cwd,
          rs, rstatus, inv, delays, bi, caught, failures, trace, startFile,
          rerun, completed, pushedOk, everPersisted>>

Key == <<cfg.collection, cfg.project, cfg.repo>>

File == [exists |-> fileExists, doc |-> ledger]

NoCall == [cmd |-> NoCmd, retries |-> 0, attempt |-> 0, ret |-> "none"]

Configs ==
    [collection : Collections, project : Projects, repo : Repos,
     branches : Selectors, only_clone : BOOLEAN]

NoConfig ==
    [collection |-> "org1", project |-> "p1", repo |-> "r1",
     branches |-> All, only_clone |-> FALSE]

Init ==
    /\ pc = "idle"
    /\ op = "none"
    /\ outcome = "none"
    /\ cfg = NoConfig
    /\ fileExists \in BOOLEAN
    /\ ledger = JsonDump(EmptyDoc)
    /\ fileTorn = FALSE
    /\ lastDumped = EmptyDoc
    /\ checkpoint = EmptyDoc
    /\ dirExists = FALSE
    /\ hadDir = FALSE
    /\ cwd = "start"
    /\ rs = NoCall
    /\ rstatus = "none"
    /\ inv = 0
    /\ delays = << >>
    /\ bi = 0
    /\ caught = FALSE
    /\ failures = 0
    /\ trace = << >>
    /\ startFile = [exists |-> fileExists, doc |-> JsonDump(EmptyDoc)]
    /\ rerun = FALSE
    /\ completed = {}
    /\ pushedOk = {}
    /\ everPersisted = {}

histVars == <<completed, pushedOk>>
fileVars == <<fileExists, ledger, fileTorn, lastDumped, everPersisted>>
retryVars == <<rs, rstatus, inv, delays>>
runVars == <<cfg, checkpoint, dirExists, hadDir, cwd, bi, caught, rerun>>

\* no retry_subprocess call has been made in this operation
NoRetry ==
    /\ rs' = NoCall
    /\ rstatus' = "none"
    /\ inv' = 0
    /\ delays' = << >>

\* a call made outside a run starts with no run in progress
FreshCall ==
    /\ cfg' = NoConfig
    /\ dirExists' = FALSE
    /\ hadDir' = FALSE
    /\ cwd' = "start"
    /\ bi' = 0
    /\ caught' = FALSE
    /\ rerun' = FALSE
    /\ failures' = 0

\* ---- direct calls of the ledger operations --------------------------------

\* load_checkpoint(): creates the file holding {} when it is missing, then reads it
CallLoadCheckpoint ==
    /\ pc = "idle"
    /\ op' = "load"
    /\ startFile' = File
    /\ fileExists' = TRUE
    /\ ledger' = IF fileExists THEN ledger ELSE JsonDump(EmptyDoc)
    /\ lastDumped' = IF fileExists THEN lastDumped ELSE EmptyDoc
    /\ trace' = IF fileExists THEN <<ReadEv>> ELSE <<WriteEv("init"), ReadEv>>
    /\ IF fileTorn
       THEN checkpoint' = EmptyDoc /\ outcome' = "load_raised"    \* json.load raises
       ELSE checkpoint' = JsonLoad(ledger') /\ outcome' = "loaded"
    /\ FreshCall
    /\ NoRetry
    /\ UNCHANGED <<pc, fileTorn, everPersisted, histVars>>

\* save_checkpoint(collection_name, project_name, repo_name)
CallSaveCheckpoint(c, p, r) ==
    /\ pc = "idle"
    /\ op' = "save"
    /\ startFile' = File
    /\ IF fileExists /\ fileTorn
       THEN /\ trace' = <<ReadEv>>                                \* json.load raises
            /\ outcome' = "save_raised"
            /\ UNCHANGED fileVars
       ELSE LET doc == IF fileExists THEN JsonLoad(ledger) ELSE EmptyDoc
                reads == IF fileExists THEN <<ReadEv>> ELSE << >>
            IN /\ outcome' = "saved"
               /\ IF NeedsRecord(doc, c, p, r)
                  THEN /\ ledger' = JsonDump(Recorded(doc, c, p, r))
                       /\ lastDumped' = Recorded(doc, c, p, r)
                       /\ fileExists' = TRUE
                       /\ fileTorn' = FALSE
                       /\ trace' = Append(reads, WriteEv("record"))
                       /\ everPersisted' = everPersisted \cup Entries(Recorded(doc, c, p, r))
                  ELSE /\ UNCHANGED fileVars
                       /\ trace' = reads
    /\ checkpoint' = EmptyDoc
    /\ FreshCall
    /\ NoRetry
    /\ UNCHANGED <<pc, histVars>>

\* ---- retry_subprocess ------------------------------------------------------

\* entry of retry_subprocess(command, retries), returning to ret
EnterRetry(cmd, retries, ret) ==
    /\ rs' = [cmd |-> cmd, retries |-> retries, attempt |-> 0, ret |-> ret]
    /\ rstatus' = "running"
    /\ inv' = 0
    /\ delays' = << >>
    /\ pc' = "retry"

\* a direct call retry_subprocess(command, retries)
CallRetrySubprocess(cmd, retries) ==
    /\ pc = "idle"
    /\ op' = "retry"
    /\ outcome' = "running"
    /\ startFile' = File
    /\ trace' = << >>
    /\ checkpoint' = EmptyDoc
    /\ FreshCall
    /\ EnterRetry(cmd, retries, "direct")
    /\ UNCHANGED <<fileVars, histVars>>

IsClone(cmd) == cmd.name \in {"clone", "clone_mirror"}

\* subprocess.run(command, check=True) exits zero: return
RetryInvokeOk ==
    /\ pc = "retry"
    /\ rs.attempt < rs.retries
    /\ trace' = Append(trace, CmdEv(rs.cmd, TRUE))
    /\ inv' = inv + 1
    /\ rstatus' = "returned"
    /\ dirExists' = (dirExists \/ IsClone(rs.cmd))
    /\ IF rs.ret = "direct"
       THEN pc' = "idle" /\ outcome' = "retry_returned"
       ELSE pc' = rs.ret /\ UNCHANGED outcome
    /\ UNCHANGED <<op, cfg, checkpoint, hadDir, cwd, bi, caught, rerun, rs, delays,
                   failures, startFile>>
    /\ UNCHANGED <<fileVars, histVars>>

\* subprocess.run raises CalledProcessError: warn, time.sleep(2 ** attempt), next attempt
RetryInvokeFail ==
    /\ pc = "retry"
    /\ rs.attempt < rs.retries
    /\ rs.ret = "direct" \/ failures < MaxFailures
    /\ trace' = Append(trace, CmdEv(rs.cmd, FALSE))
    /\ inv' = inv + 1
    /\ failures' = failures + 1
    /\ delays' = Append(delays, Pow2(rs.attempt))
    /\ rs' = [rs EXCEPT !.attempt = @ + 1]
    /\ UNCHANGED <<pc, op, outcome, runVars, rstatus, startFile>>
    /\ UNCHANGED <<fileVars, histVars>>

\* mutant: the failure is logged inside the wrapper and the caller goes on
RetryExhaustedGoesOn ==
    /\ pc = "retry"
    /\ rs.attempt >= rs.retries
    /\ rstatus' = "raised"
    /\ IF rs.ret = "direct"
       THEN pc' = "idle" /\ outcome' = "retry_raised" /\ UNCHANGED caught
       ELSE pc' = rs.ret /\ caught' = TRUE /\ UNCHANGED outcome
    /\ UNCHANGED <<op, cfg, checkpoint, dirExists, hadDir, cwd, bi, rerun, rs, inv, delays,
                   failures, trace, startFile>>
    /\ UNCHANGED <<fileVars, histVars>>

\* mutant: a failed clone is caught around the clone alone, the push step follows
RetryExhaustedCloneSwallowed ==
    /\ pc = "retry"
    /\ rs.attempt >= rs.retries
    /\ rstatus' = "raised"
    /\ IF rs.ret = "direct"
       THEN pc' = "idle" /\ outcome' = "retry_raised" /\ UNCHANGED caught
       ELSE /\ pc' = IF IsClone(rs.cmd) THEN "after_clone" ELSE "finally"
            /\ caught' = TRUE
            /\ UNCHANGED outcome
    /\ UNCHANGED <<op, cfg, checkpoint, dirExists, hadDir, cwd, bi, rerun, rs, inv, delays,
                   failures, trace, startFile>>
    /\ UNCHANGED <<fileVars, histVars>>

\* the for loop is exhausted: raise Exception("Command failed after ... retries")
RetryExhausted ==
    /\ pc = "retry"
    /\ rs.attempt >= rs.retries
    /\ rstatus' = "raised"
    /\ IF rs.ret = "direct"
       THEN pc' = "idle" /\ outcome' = "retry_raised" /\ UNCHANGED caught
       ELSE pc' = "finally" /\ caught' = TRUE /\ UNCHANGED outcome
    /\ UNCHANGED <<op, cfg, checkpoint, dirExists, hadDir, cwd, bi, rerun, rs, inv, delays,
                   failures, trace, startFile>>
    /\ UNCHANGED <<fileVars, histVars>>

\* ---- clone_and_push_repositories ---------------------------------------------

\* main(): a new process loads the configuration and enters the orchestrator,
\* which reads the configuration and creates the directories (lines 106-127)
StartRun(c, dirThere) ==
    /\ pc = "idle"
    /\ op' = "run"
    /\ outcome' = "running"
    /\ cfg' = c
    /\ checkpoint' = EmptyDoc
    /\ dirExists' = dirThere
    /\ hadDir' = dirThere
    /\ cwd' = "start"
    /\ bi' = 0
    /\ caught' = FALSE
    /\ failures' = 0
    /\ trace' = << >>
    /\ startFile' = File
    /\ rerun' = (<<c.collection, c.project, c.repo>> \in completed)
    /\ pc' = "list"
    /\ NoRetry
    /\ UNCHANGED <<fileVars, histVars>>

\* mutant: the listed names are not searched for tfs_repo
ListRepositoriesAnyName(status, names) ==
    /\ pc = "list"
    /\ trace' = Append(trace, ListingEv(status = HttpOk, cfg.repo \in names))
    /\ IF status # HttpOk
       THEN pc' = "idle" /\ outcome' = "raised_listing"
       ELSE pc' = "load" /\ UNCHANGED outcome
    /\ UNCHANGED <<op, runVars, retryVars, failures, startFile>>
    /\ UNCHANGED <<fileVars, histVars>>

\* requests.get of the repository listing, and the two checks on its answer
ListRepositories(status, names) ==
    /\ pc = "list"
    /\ trace' = Append(trace, ListingEv(status = HttpOk, cfg.repo \in names))
    /\ IF status # HttpOk
       THEN pc' = "idle" /\ outcome' = "raised_listing"
       ELSE IF cfg.repo \notin names
            THEN pc' = "idle" /\ outcome' = "raised_not_found"
            ELSE pc' = "load" /\ UNCHANGED outcome
    /\ UNCHANGED <<op, runVars, retryVars, failures, startFile>>
    /\ UNCHANGED <<fileVars, histVars>>

\* checkpoint = load_checkpoint()
LoadCheckpoint ==
    /\ pc = "load"
    /\ fileExists' = TRUE
    /\ ledger' = IF fileExists THEN ledger ELSE JsonDump(EmptyDoc)
    /\ lastDumped' = IF fileExists THEN lastDumped ELSE EmptyDoc
    /\ trace' = IF fileExists THEN Append(trace, ReadEv)
                ELSE trace \o <<WriteEv("init"), ReadEv>>
    /\ IF fileTorn
       THEN /\ pc' = "idle"                   \* json.load raises out of the orchestrator
            /\ outcome' = "raised_ledger"
            /\ UNCHANGED checkpoint
       ELSE /\ pc' = "skip_check"
            /\ checkpoint' = JsonLoad(ledger')
            /\ UNCHANGED outcome
    /\ UNCHANGED <<op, cfg, dirExists, hadDir, cwd, bi, caught, rerun, retryVars,
                   failures, startFile, fileTorn, everPersisted, histVars>>

\* mutant: the "already migrated" test never returns
SkipCheckNever ==
    /\ pc = "skip_check"
    /\ pc' = "verify"
    /\ UNCHANGED <<op, outcome, runVars, retryVars, failures, trace, startFile>>
    /\ UNCHANGED <<fileVars, histVars>>

\* the "already migrated" test and its return
SkipCheck ==
    /\ pc = "skip_check"
    /\ IF Contains(checkpoint, cfg.collection, cfg.project, cfg.repo)
       THEN pc' = "idle" /\ outcome' = "skipped"
       ELSE pc' = "verify" /\ UNCHANGED outcome
    /\ UNCHANGED <<op, runVars, retryVars, failures, trace, startFile>>
    /\ UNCHANGED <<fileVars, histVars>>

\* mutant: the answer of the existence check is ignored
VerifyDestinationIgnored(status) ==
    /\ pc = "verify"
    /\ trace' = Append(trace, HttpEv("github", status = HttpOk))
    /\ pc' = "clone"
    /\ UNCHANGED <<op, outcome, runVars, retryVars, failures, startFile>>
    /\ UNCHANGED <<fileVars, histVars>>

\* mutant: a missing destination leaves through the finally block
VerifyDestinationCheckpoints(status) ==
    /\ pc = "verify"
    /\ trace' = Append(trace, HttpEv("github", status = HttpOk))
    /\ pc' = IF status = HttpOk THEN "clone" ELSE "finally"
    /\ UNCHANGED <<op, outcome, runVars, retryVars, failures, startFile>>
    /\ UNCHANGED <<fileVars, histVars>>

\* check_github_repo_exists: response.status_code == 200
VerifyDestination(status) ==
    /\ pc = "verify"
    /\ trace' = Append(trace, HttpEv("github", status = HttpOk))
    /\ IF status = HttpOk
       THEN pc' = "clone" /\ UNCHANGED outcome
       ELSE pc' = "idle" /\ outcome' = "dest_missing"
    /\ UNCHANGED <<op, runVars, retryVars, failures, startFile>>
    /\ UNCHANGED <<fileVars, histVars>>

\* mutant: the clone does not test for an existing directory
CloneStepAlways ==
    /\ pc = "clone"
    /\ EnterRetry(IF cfg.branches.all THEN CloneMirrorCmd ELSE CloneCmd,
                  DefaultRetries, "after_clone")
    /\ UNCHANGED <<op, outcome, runVars, failures, trace, startFile>>
    /\ UNCHANGED <<fileVars, histVars>>

\* if not os.path.exists(repo_dir): clone --mirror for "all", plain clone otherwise
CloneStep ==
    /\ pc = "clone"
    /\ IF ~dirExists
       THEN EnterRetry(IF cfg.branches = All THEN CloneMirrorCmd ELSE CloneCmd,
                       DefaultRetries, "after_clone")
       ELSE pc' = "after_clone" /\ UNCHANGED retryVars
    /\ UNCHANGED <<op, outcome, runVars, failures, trace, startFile>>
    /\ UNCHANGED <<fileVars, histVars>>

\* mutant: the push step does not test only_clone_repos
PushStepAlways ==
    /\ pc = "after_clone"
    /\ cwd' = "repo"
    /\ trace' = Append(trace, ChdirEv("repo"))
    /\ IF cfg.branches.all
       THEN EnterRetry(PushMirrorCmd, DefaultRetries, "finally")
       ELSE pc' = "branches" /\ UNCHANGED retryVars
    /\ UNCHANGED <<op, outcome, cfg, checkpoint, dirExists, hadDir, bi, caught, rerun,
                   failures, startFile>>
    /\ UNCHANGED <<fileVars, histVars>>

\* if not only_clone_repos: os.chdir(repo_dir), then push --mirror or the branch loop
PushStep ==
    /\ pc = "after_clone"
    /\ IF cfg.only_clone
       THEN pc' = "finally" /\ UNCHANGED <<cwd, trace, retryVars>>
       ELSE /\ cwd' = "repo"
            /\ trace' = Append(trace, ChdirEv("repo"))
            /\ IF cfg.branches = All
               THEN EnterRetry(PushMirrorCmd, DefaultRetries, "finally")
               ELSE pc' = "branches" /\ UNCHANGED retryVars
    /\ UNCHANGED <<op, outcome, cfg, checkpoint, dirExists, hadDir, bi, caught, rerun,
                   failures, startFile>>
    /\ UNCHANGED <<fileVars, histVars>>

\* migrate_specific_branches: the loop takes the next branch and fetches it
BranchFetch ==
    /\ pc = "branches"
    /\ bi < Len(cfg.branches.list)
    /\ bi' = bi + 1
    /\ EnterRetry(FetchCmd(cfg.branches.list[bi + 1]), DefaultRetries, "branch_push")
    /\ UNCHANGED <<op, outcome, cfg, checkpoint, dirExists, hadDir, cwd, caught, rerun,
                   failures, trace, startFile>>
    /\ UNCHANGED <<fileVars, histVars>>

\* migrate_specific_branches: push of the branch just fetched
BranchPush ==
    /\ pc = "branch_push"
    /\ EnterRetry(PushCmd(cfg.branches.list[bi]), DefaultRetries, "branches")
    /\ UNCHANGED <<op, outcome, runVars, failures, trace, startFile>>
    /\ UNCHANGED <<fileVars, histVars>>

\* migrate_specific_branches: the loop is exhausted, the function returns
BranchesDone ==
    /\ pc = "branches"
    /\ bi >= Len(cfg.branches.list)
    /\ pc' = "finally"
    /\ UNCHANGED <<op, outcome, runVars, retryVars, failures, trace, startFile>>
    /\ UNCHANGED <<fileVars, histVars>>

\* mutant: the checkpoint is saved only when nothing was caught
FinallyOnSuccess ==
    /\ pc = "finally"
    /\ LET doc == IF fileExists THEN JsonLoad(ledger) ELSE EmptyDoc
           reads == IF fileExists THEN <<ReadEv>> ELSE << >>
           c == cfg.collection
           p == cfg.project
           r == cfg.repo
       IN IF ~caught /\ NeedsRecord(doc, c, p, r)
          THEN /\ ledger' = JsonDump(Recorded(doc, c, p, r))
               /\ lastDumped' = Recorded(doc, c, p, r)
               /\ fileExists' = TRUE
               /\ fileTorn' = FALSE
               /\ trace' = trace \o reads \o <<WriteEv("record"), ChdirEv("base")>>
               /\ everPersisted' = everPersisted \cup Entries(Recorded(doc, c, p, r))
          ELSE /\ UNCHANGED fileVars
               /\ trace' = trace \o reads \o <<ChdirEv("base")>>
    /\ cwd' = "base"
    /\ completed' = completed \cup {Key}
    /\ pushedOk' = IF ~caught /\ ~cfg.only_clone THEN pushedOk \cup {Key} ELSE pushedOk
    /\ outcome' = "checkpointed"
    /\ pc' = "idle"
    /\ UNCHANGED <<op, cfg, checkpoint, dirExists, hadDir, bi, caught, rerun, retryVars,
                   failures, startFile>>

\* mutant: a clone-only run saves no checkpoint
FinallyUnlessCloneOnly ==
    /\ pc = "finally"
    /\ LET doc == IF fileExists THEN JsonLoad(ledger) ELSE EmptyDoc
           reads == IF fileExists THEN <<ReadEv>> ELSE << >>
           c == cfg.collection
           p == cfg.project
           r == cfg.repo
       IN IF ~cfg.only_clone /\ NeedsRecord(doc, c, p, r)
          THEN /\ ledger' = JsonDump(Recorded(doc, c, p, r))
               /\ lastDumped' = Recorded(doc, c, p, r)
               /\ fileExists' = TRUE
               /\ fileTorn' = FALSE
               /\ trace' = trace \o reads \o <<WriteEv("record"), ChdirEv("base")>>
               /\ everPersisted' = everPersisted \cup Entries(Recorded(doc, c, p, r))
          ELSE /\ UNCHANGED fileVars
               /\ trace' = trace \o reads \o <<ChdirEv("base")>>
    /\ cwd' = "base"
    /\ completed' = completed \cup {Key}
    /\ pushedOk' = IF ~caught /\ ~cfg.only_clone THEN pushedOk \cup {Key} ELSE pushedOk
    /\ outcome' = "checkpointed"
    /\ pc' = "idle"
    /\ UNCHANGED <<op, cfg, checkpoint, dirExists, hadDir, bi, caught, rerun, retryVars,
                   failures, startFile>>

\* mutant: the finally block does not change the working directory back
FinallyNoChdir ==
    /\ pc = "finally"
    /\ LET doc == IF fileExists THEN JsonLoad(ledger) ELSE EmptyDoc
           reads == IF fileExists THEN <<ReadEv>> ELSE << >>
           c == cfg.collection
           p == cfg.project
           r == cfg.repo
       IN IF NeedsRecord(doc, c, p, r)
          THEN /\ ledger' = JsonDump(Recorded(doc, c, p, r))
               /\ lastDumped' = Recorded(doc, c, p, r)
               /\ fileExists' = TRUE
               /\ fileTorn' = FALSE
               /\ trace' = trace \o reads \o <<WriteEv("record")>>
               /\ everPersisted' = everPersisted \cup Entries(Recorded(doc, c, p, r))
          ELSE /\ UNCHANGED fileVars
               /\ trace' = trace \o reads
    /\ completed' = completed \cup {Key}
    /\ pushedOk' = IF ~caught /\ ~cfg.only_clone THEN pushedOk \cup {Key} ELSE pushedOk
    /\ outcome' = "checkpointed"
    /\ pc' = "idle"
    /\ UNCHANGED <<op, cfg, checkpoint, dirExists, hadDir, cwd, bi, caught, rerun, retryVars,
                   failures, startFile>>

\* finally: save_checkpoint(collection_name, azure_project, repo_name); os.chdir(base_dir)
Finally ==
    /\ pc = "finally"
    /\ LET doc == IF fileExists THEN JsonLoad(ledger) ELSE EmptyDoc
           reads == IF fileExists THEN <<ReadEv>> ELSE << >>
           c == cfg.collection
           p == cfg.project
           r == cfg.repo
       IN IF NeedsRecord(doc, c, p, r)
          THEN /\ ledger' = JsonDump(Recorded(doc, c, p, r))
               /\ lastDumped' = Recorded(doc, c, p, r)
               /\ fileExists' = TRUE
               /\ fileTorn' = FALSE
               /\ trace' = trace \o reads \o <<WriteEv("record"), ChdirEv("base")>>
               /\ everPersisted' = everPersisted \cup Entries(Recorded(doc, c, p, r))
          ELSE /\ UNCHANGED fileVars
               /\ trace' = trace \o reads \o <<ChdirEv("base")>>
    /\ cwd' = "base"
    /\ completed' = completed \cup {Key}
    /\ pushedOk' = IF ~caught /\ ~cfg.only_clone THEN pushedOk \cup {Key} ELSE pushedOk
    /\ outcome' = "checkpointed"
    /\ pc' = "idle"
    /\ UNCHANGED <<op, cfg, checkpoint, dirExists, hadDir, bi, caught, rerun, retryVars,
                   failures, startFile>>

Next ==
    \/ CallLoadCheckpoint
    \/ \E c \in Collections, p \in Projects, r \in Repos : CallSaveCheckpoint(c, p, r)
    \/ \E cmd \in DirectCommands, n \in 0..MaxRetries : CallRetrySubprocess(cmd, n)
    \/ RetryInvokeOk
    \/ RetryInvokeFail
    \/ RetryExhausted
    \/ \E c \in Configs, d \in BOOLEAN : StartRun(c, d)
    \/ \E s \in HttpStatuses, names \in SUBSET Repos : ListRepositories(s, names)
    \/ LoadCheckpoint
    \/ SkipCheck
    \/ \E s \in HttpStatuses : VerifyDestination(s)
    \/ CloneStep
    \/ PushStep
    \/ BranchFetch
    \/ BranchPush
    \/ BranchesDone
    \/ Finally

Spec == Init /\ [][Next]_vars

\* ---- one process, with any number of failed invocations ----------------------

\* tfs_source_repo of the one configuration the process is started with
OneRepo == CHOOSE r \in Repos : TRUE

\* the ledgers an earlier process can have left: empty, or holding that repo
SeedDocs ==
    {EmptyDoc} \cup
    {Recorded(EmptyDoc, c, p, OneRepo) : c \in Collections, p \in Projects}

\* the process starts with no ledger file or with one of these ledgers
InitRun ==
    /\ pc = "idle"
    /\ op = "none"
    /\ outcome = "none"
    /\ cfg = NoConfig
    /\ fileExists \in BOOLEAN
    /\ lastDumped \in (IF fileExists THEN SeedDocs ELSE {EmptyDoc})
    /\ ledger = JsonDump(lastDumped)
    /\ fileTorn = FALSE
    /\ checkpoint = EmptyDoc
    /\ dirExists = FALSE
    /\ hadDir = FALSE
    /\ cwd = "start"
    /\ rs = NoCall
    /\ rstatus = "none"
    /\ inv = 0
    /\ delays = << >>
    /\ bi = 0
    /\ caught = FALSE
    /\ failures = 0
    /\ trace = << >>
    /\ startFile = [exists |-> fileExists, doc |-> ledger]
    /\ rerun = FALSE
    /\ completed = {}
    /\ pushedOk = {}
    /\ everPersisted = Entries(lastDumped)

\* main() calls the orchestrator once in the life of the process
StartOnlyRun(c, dirThere) ==
    /\ op = "none"
    /\ StartRun(c, dirThere)

\* subprocess.run raises CalledProcessError, as RetryInvokeFail but however often
\* the environment has already failed in this run
RetryInvokeFailAgain ==
    /\ pc = "retry"
    /\ rs.attempt < rs.retries
    /\ trace' = Append(trace, CmdEv(rs.cmd, FALSE))
    /\ inv' = inv + 1
    /\ failures' = failures + 1
    /\ delays' = Append(delays, Pow2(rs.attempt))
    /\ rs' = [rs EXCEPT !.attempt = @ + 1]
    /\ UNCHANGED <<pc, op, outcome, runVars, rstatus, startFile>>
    /\ UNCHANGED <<fileVars, histVars>>

NextRun ==
    \/ \E c \in {x \in Configs : x.repo = OneRepo}, d \in BOOLEAN : StartOnlyRun(c, d)
    \/ \E s \in HttpStatuses, names \in SUBSET Repos : ListRepositories(s, names)
    \/ LoadCheckpoint
    \/ SkipCheck
    \/ \E s \in HttpStatuses : VerifyDestination(s)
    \/ CloneStep
    \/ PushStep
    \/ BranchFetch
    \/ BranchPush
    \/ BranchesDone
    \/ Finally
    \/ RetryInvokeOk
    \/ RetryInvokeFailAgain
    \/ RetryExhausted

\* the single thread of the process keeps executing: every HTTP call and every
\* command invocation returns
SpecRun == InitRun /\ [][NextRun]_vars /\ WF_vars(NextRun)

\* ---- the process dies while it rewrites the ledger file -------------------------
\* open(CHECKPOINT_FILE, "w") truncates the file and json.dump then writes the text
\* piece by piece: a process that dies in between leaves an empty or partial text
\* (fileTorn), one that dies after the last piece leaves the complete new text.

\* save_checkpoint dies between line 59 and the end of line 60 of a direct call
CrashInSave(c, p, r, complete) ==
    /\ pc = "idle"
    /\ ~(fileExists /\ fileTorn)
    /\ LET doc == IF fileExists THEN JsonLoad(ledger) ELSE EmptyDoc
           reads == IF fileExists THEN <<ReadEv>> ELSE << >>
       IN /\ NeedsRecord(doc, c, p, r)
          /\ fileExists' = TRUE
          /\ fileTorn' = ~complete
          /\ ledger' = IF complete THEN JsonDump(Recorded(doc, c, p, r)) ELSE << >>
          /\ lastDumped' = Recorded(doc, c, p, r)
          /\ everPersisted' = IF complete
                              THEN everPersisted \cup Entries(Recorded(doc, c, p, r))
                              ELSE everPersisted
          /\ trace' = Append(reads, WriteEv(IF complete THEN "record" ELSE "torn"))
    /\ op' = "save"
    /\ outcome' = "crashed_record"
    /\ startFile' = File
    /\ checkpoint' = EmptyDoc
    /\ FreshCall
    /\ NoRetry
    /\ UNCHANGED <<pc, histVars>>

\* the run dies in the save_checkpoint of its finally block, before os.chdir(base_dir)
CrashInFinally(complete) ==
    /\ pc = "finally"
    /\ LET doc == IF fileExists THEN JsonLoad(ledger) ELSE EmptyDoc
           reads == IF fileExists THEN <<ReadEv>> ELSE << >>
           c == cfg.collection
           p == cfg.project
           r == cfg.repo
       IN /\ NeedsRecord(doc, c, p, r)
          /\ fileExists' = TRUE
          /\ fileTorn' = ~complete
          /\ ledger' = IF complete THEN JsonDump(Recorded(doc, c, p, r)) ELSE << >>
          /\ lastDumped' = Recorded(doc, c, p, r)
          /\ everPersisted' = IF complete
                              THEN everPersisted \cup Entries(Recorded(doc, c, p, r))
                              ELSE everPersisted
          /\ trace' = trace \o reads \o <<WriteEv(IF complete THEN "record" ELSE "torn")>>
    /\ outcome' = "crashed_record"
    /\ pc' = "idle"
    /\ UNCHANGED <<op, cfg, checkpoint, dirExists, hadDir, cwd, bi, caught, rerun, retryVars,
                   failures, startFile, histVars>>

\* the run dies in load_checkpoint while it creates the missing file (lines 66-67)
CrashInLoad(complete) ==
    /\ pc = "load"
    /\ ~fileExists
    /\ fileExists' = TRUE
    /\ fileTorn' = ~complete
    /\ ledger' = JsonDump(EmptyDoc)
    /\ lastDumped' = EmptyDoc
    /\ trace' = Append(trace, WriteEv(IF complete THEN "init" ELSE "torn"))
    /\ outcome' = "crashed_load"
    /\ pc' = "idle"
    /\ UNCHANGED <<op, cfg, checkpoint, dirExists, hadDir, cwd, bi, caught, rerun, retryVars,
                   failures, startFile, everPersisted, histVars>>

NextCrash ==
    \/ Next
    \/ \E c \in Collections, p \in Projects, r \in Repos, complete \in BOOLEAN :
          CrashInSave(c, p, r, complete)
    \/ \E complete \in BOOLEAN : CrashInFinally(complete)
    \/ \E complete \in BOOLEAN : CrashInLoad(complete)

SpecCrash == Init /\ [][NextCrash]_vars

\* the ledger operations alone, called with any collection and project
NextLedger ==
    \/ CallLoadCheckpoint
    \/ \E c \in LedgerCollections, p \in LedgerProjects, r \in Repos :
          CallSaveCheckpoint(c, p, r)

SpecLedger == Init /\ [][NextLedger]_vars

TypeOK ==
    /\ pc \in {"idle", "list", "load", "skip_check", "verify", "clone", "after_clone",
               "branches", "branch_push", "finally", "retry"}
    /\ cfg \in Configs
    /\ fileExists \in BOOLEAN
    /\ cwd \in {"start", "repo", "base"}
    /\ inv \in 0..MaxRetries
    /\ failures \in Nat
\* ---- properties ----------------------------------------------------------------

\* the JSON text holds repo k[3] in the list of project k[2] of collection k[1]
Has(text, k) ==
    \E i \in 1..Len(text) :
        /\ text[i][1] = k[1]
        /\ \E j \in 1..Len(text[i][2]) :
              /\ text[i][2][j][1] = k[2]
              /\ \E n \in 1..Len(text[i][2][j][2]) : text[i][2][j][2][n] = k[3]

IsCmdAt(i) == trace[i].kind = "cmd"
IsWriteAt(i) == trace[i].kind = "write"
IsRecordAt(i) == trace[i].kind = "write" /\ trace[i].name = "record"
IsGithubAt(i) == trace[i].kind = "http" /\ trace[i].name = "github"

NoCommands == \A i \in 1..Len(trace) : ~IsCmdAt(i)
NoDestinationQuery == \A i \in 1..Len(trace) : ~IsGithubAt(i)
NoWrites == \A i \in 1..Len(trace) : ~IsWriteAt(i)
NoRecords == \A i \in 1..Len(trace) : ~IsRecordAt(i)

\* the ledger held the run's repo when the run started
InLedgerAtStart == startFile.exists /\ Has(startFile.doc, Key)

\* the GitHub existence check of this run answered with a status other than 200
DestinationMissing == \E i \in 1..Len(trace) : IsGithubAt(i) /\ ~trace[i].ok
\* the GitHub existence check of this run answered 200
DestinationVerified == \E i \in 1..Len(trace) : IsGithubAt(i) /\ trace[i].ok

\* C1: a run whose repo is already in the ledger when the run starts invokes no
\* clone, fetch or push command, does not query the destination, and leaves the
\* ledger file as it was.
C1_SkipInvariant ==
    (op = "run" /\ InLedgerAtStart) =>
        /\ NoCommands
        /\ NoDestinationQuery
        /\ File = startFile
        /\ pc \in {"list", "load", "skip_check", "idle"}

\* a run of a repo already in the ledger has returned through the skip
C1_Witness == op = "run" /\ InLedgerAtStart /\ outcome = "skipped"

\* C2: a run in which a clone, fetch or push failed terminally does not raise to its
\* caller, and once it has returned the ledger holds the repo.
C2_SwallowedFailureCheckpointed ==
    (op = "run" /\ rstatus = "raised") =>
        /\ pc \in {"finally", "idle"}
        /\ caught
        /\ pc = "idle" => (outcome = "checkpointed" /\ fileExists /\ Has(ledger, Key))

\* the clone succeeded, the mirror push failed three times, the run has returned
C2_Witness ==
    /\ op = "run" /\ pc = "idle" /\ rstatus = "raised"
    /\ rs.cmd = PushMirrorCmd /\ ~hadDir /\ Has(ledger, Key)

\* C3 as stated: when the existence check is not 200 the run invokes no command and
\* writes the ledger file zero times, also when the file did not exist before the run.
C3_Original ==
    (op = "run" /\ DestinationMissing) =>
        /\ NoCommands
        /\ NoWrites
        /\ pc = "idle" /\ outcome = "dest_missing"

\* C3 amended: when the existence check is not 200 the run invokes no command, records
\* nothing, and returns without raising; the ledger file is written only by the load
\* that creates the empty document when the file did not exist before the run.
C3_DestinationMissing ==
    (op = "run" /\ DestinationMissing) =>
        /\ NoCommands
        /\ NoRecords
        /\ pc = "idle" /\ outcome = "dest_missing"
        /\ fileExists
        /\ ledger = startFile.doc
        /\ ~Has(ledger, Key)
        /\ IF startFile.exists
           THEN NoWrites
           ELSE /\ ledger = << >>
                /\ Cardinality({i \in 1..Len(trace) : IsWriteAt(i)}) = 1
                /\ \E i \in 1..Len(trace) : IsWriteAt(i) /\ trace[i].name = "init"

\* the destination was missing in a run that found no ledger file
C3_Witness ==
    op = "run" /\ DestinationMissing /\ ~startFile.exists /\ outcome = "dest_missing"
\* C4 as stated: a retry_subprocess call with retries >= 1 whose command never exits
\* zero invokes it exactly retries times, then raises, having slept 1, 2, 4, ...
\* between consecutive attempts only: retries - 1 delays in all.
C4_Original ==
    (rstatus = "raised" /\ rs.retries >= 1) =>
        /\ inv = rs.retries
        /\ Len(delays) = rs.retries - 1
        /\ \A i \in 1..Len(delays) : delays[i] = 2 ^ (i - 1)

\* C5: a run of a repo that an earlier run took through the clone/push step invokes
\* no clone, fetch or push command and leaves the ledger file as it was, also when
\* that earlier run did not push.
C5_RerunIdempotent ==
    (op = "run" /\ rerun) =>
        /\ NoCommands
        /\ File = startFile
        /\ Has(ledger, Key)
        /\ pc \in {"list", "load", "skip_check", "idle"}
        /\ Key \notin pushedOk => (pc = "idle" => outcome # "checkpointed")

\* a repo whose earlier run failed or only cloned is skipped by a later run
C5_Witness ==
    op = "run" /\ rerun /\ Key \notin pushedOk /\ outcome = "skipped"

RecordCount == Cardinality({i \in 1..Len(trace) : IsRecordAt(i)})

\* C6: a run records its repo in the ledger exactly once if and only if it passed the
\* listing, the skip check and the destination verification; the record comes after
\* the last command invocation of the run; a run stopped by a pre-check records nothing.
C6_CheckpointPlacement ==
    op = "run" =>
        /\ RecordCount <= 1
        /\ RecordCount = 1 =>
              /\ DestinationVerified
              /\ pc = "idle" /\ outcome = "checkpointed"
              /\ Has(ledger, Key) /\ ~Has(startFile.doc, Key)
        /\ (pc = "idle" /\ DestinationVerified) => RecordCount = 1
        /\ (pc = "idle" /\ ~DestinationVerified) => (RecordCount = 0 /\ ledger = startFile.doc)
        /\ \A i, j \in 1..Len(trace) : (IsRecordAt(i) /\ i < j) => ~IsCmdAt(j)

\* a run whose push failed has recorded its repo once, after its commands
C6_Witness ==
    /\ op = "run" /\ pc = "idle" /\ RecordCount = 1 /\ caught
    /\ \E i \in 1..Len(trace) : IsCmdAt(i)

\* the command invocations and ledger writes of the operation, in order
CmdsAndWrites == SelectSeq(trace, LAMBDA e : e.kind \in {"cmd", "write"})
\* the command invocations of the operation, in order
CmdTrace == SelectSeq(trace, LAMBDA e : e.kind = "cmd")

\* C7: a run with selector "all", not clone-only, destination existing, no local clone,
\* repo not in the ledger and no command failing invokes clone --mirror once, then
\* push --mirror once, then writes the ledger file once, and invokes nothing else;
\* the only other write is the creation of the missing ledger file before the clone.
C7_MirrorScenario ==
    (/\ op = "run" /\ pc = "idle"
     /\ cfg.branches.all /\ ~cfg.only_clone
     /\ DestinationVerified /\ ~hadDir /\ ~InLedgerAtStart /\ failures = 0) =>
        /\ CmdTrace = << Ev("cmd", "clone_mirror", NoBranch, NoBranch, TRUE),
                         Ev("cmd", "push_mirror", NoBranch, NoBranch, TRUE) >>
        /\ CmdsAndWrites =
              (IF startFile.exists THEN << >> ELSE << WriteEv("init") >>)
              \o << Ev("cmd", "clone_mirror", NoBranch, NoBranch, TRUE),
                    Ev("cmd", "push_mirror", NoBranch, NoBranch, TRUE),
                    WriteEv("record") >>

\* the mirror scenario has run to its end
C7_Witness ==
    /\ op = "run" /\ pc = "idle" /\ outcome = "checkpointed"
    /\ cfg.branches.all /\ ~cfg.only_clone
    /\ DestinationVerified /\ ~hadDir /\ ~InLedgerAtStart /\ failures = 0
    /\ startFile.exists

\* the fetch and push invocations of the operation, in order
BranchTrace == SelectSeq(trace, LAMBDA e : e.kind = "cmd" /\ e.name \in {"fetch", "push"})
\* those that exited zero
BranchOkTrace == SelectSeq(BranchTrace, LAMBDA e : e.ok)

\* fetch b1, push b1, ..., fetch bn, push bn, each push mapping
\* refs/remotes/origin/<b> to refs/heads/<b> of the same b
ExpectedAt(l, k) ==
    IF k % 2 = 1
    THEN Ev("cmd", "fetch", l[(k + 1) \div 2], NoBranch, TRUE)
    ELSE Ev("cmd", "push", l[k \div 2], l[k \div 2], TRUE)

\* a failed invocation is followed at once by another invocation of the same command
RetriedInPlace(t) ==
    \A i \in 1..Len(t) :
        ~t[i].ok => /\ i < Len(t)
                    /\ t[i + 1].name = t[i].name
                    /\ t[i + 1].src = t[i].src
                    /\ t[i + 1].dst = t[i].dst

\* C8: with an explicit branch list b1..bn, not clone-only, and every command succeeding,
\* the fetch/push invocations are fetch b1, push b1, ..., fetch bn, push bn in this
\* order, each push mapping the remote-tracking ref of b to the head of the same b.
C8_BranchListOrder ==
    (/\ op = "run" /\ pc = "idle" /\ outcome = "checkpointed"
     /\ ~cfg.branches.all /\ ~cfg.only_clone /\ ~caught) =>
        /\ Len(BranchOkTrace) = 2 * Len(cfg.branches.list)
        /\ \A k \in 1..Len(BranchOkTrace) :
              BranchOkTrace[k] = ExpectedAt(cfg.branches.list, k)
        /\ RetriedInPlace(BranchTrace)
        /\ failures = 0 => Len(BranchTrace) = 2 * Len(cfg.branches.list)

\* two different branches were migrated without a failure
C8_Witness ==
    /\ op = "run" /\ pc = "idle" /\ outcome = "checkpointed"
    /\ ~cfg.branches.all /\ ~cfg.only_clone /\ ~caught /\ failures = 0
    /\ Len(cfg.branches.list) = 2
    /\ cfg.branches.list[1] # cfg.branches.list[2]
    /\ Len(BranchTrace) = 4

\* DefaultRetries consecutive failed invocations of one command end at position i
TerminalFailureAt(t, i) ==
    /\ i >= DefaultRetries
    /\ \A j \in (i - DefaultRetries + 1)..i :
          /\ ~t[j].ok
          /\ t[j].name = t[i].name /\ t[j].src = t[i].src /\ t[j].dst = t[i].dst

\* C9: when the fetch or the push of branch bi fails terminally, no command is invoked
\* for a later branch, and after a failed fetch no push is invoked for bi: the failed
\* invocation is the last of the run, and exactly the branches before bi were done.
C9_BranchFailureAborts ==
    op = "run" =>
        \A i \in 1..Len(BranchTrace) :
            TerminalFailureAt(BranchTrace, i) =>
                /\ i = Len(BranchTrace)
                /\ CmdTrace[Len(CmdTrace)] = BranchTrace[i]
                /\ bi \in 1..Len(cfg.branches.list)
                /\ BranchTrace[i].src = cfg.branches.list[bi]
                /\ Len(BranchOkTrace) =
                      IF BranchTrace[i].name = "fetch" THEN 2 * (bi - 1) ELSE 2 * bi - 1
                /\ \A k \in 1..Len(BranchOkTrace) :
                      BranchOkTrace[k] = ExpectedAt(cfg.branches.list, k)

\* the fetch of the first of two branches failed terminally and the run has returned
C9_Witness ==
    /\ op = "run" /\ pc = "idle" /\ caught
    /\ Len(cfg.branches.list) = 2 /\ bi = 1
    /\ cfg.branches.list[1] # cfg.branches.list[2]
    /\ Len(BranchTrace) = DefaultRetries
    /\ TerminalFailureAt(BranchTrace, DefaultRetries)
    /\ BranchTrace[1].name = "fetch"

NoDuplicates(list) ==
    \A i, j \in 1..Len(list) : list[i] = list[j] => i = j

\* C10: from an absent or empty ledger, after any loads, records and runs, no repo
\* name occurs twice in the list of a (collection, project), and every repo the
\* ledger file ever held is still in it.
C10_LedgerInvariant ==
    /\ \A i \in 1..Len(ledger) : \A j \in 1..Len(ledger[i][2]) :
          NoDuplicates(ledger[i][2][j][2])
    /\ \A k \in everPersisted : fileExists /\ Has(ledger, k)

\* a repo already in a list of two was recorded again and nothing was written
C10_Witness ==
    /\ op = "save" /\ NoWrites /\ fileExists /\ File = startFile
    /\ \E i \in 1..Len(ledger) : \E j \in 1..Len(ledger[i][2]) :
          Len(ledger[i][2][j][2]) = 2
    /\ Cardinality(everPersisted) = 2
\* C11: recording a (collection, project, repo) the ledger file already holds leaves
\* the file as the first record left it and writes nothing.
C11_RecordTwice ==
    [][\A c \in LedgerCollections, p \in LedgerProjects, r \in Repos :
          (CallSaveCheckpoint(c, p, r) /\ fileExists /\ Has(ledger, <<c, p, r>>)) =>
              /\ ledger' = ledger
              /\ fileExists'
              /\ outcome' = "saved"
              /\ \A i \in 1..Len(trace') : trace'[i].kind # "write"]_vars

\* a record of a repo already held, in a ledger of two collections, wrote nothing
C11_Witness ==
    /\ op = "save" /\ outcome = "saved" /\ NoWrites /\ File = startFile
    /\ Len(ledger) = 2
    /\ Cardinality(everPersisted) >= 3
IsListingAt(i) == trace[i].kind = "http" /\ trace[i].name = "listing"

\* the listing answered with a status other than 200, or without the run's repo
ListingFailed ==
    \E i \in 1..Len(trace) : IsListingAt(i) /\ (~trace[i].ok \/ trace[i].src = "absent")

\* C12: when the listing call is not answered 200, or the source repo is not among the
\* listed names, the orchestrator raises and the run has checked no destination,
\* invoked no command, and not read, created or written the ledger file.
C12_ListingFailure ==
    (op = "run" /\ ListingFailed) =>
        /\ pc = "idle"
        /\ outcome \in {"raised_listing", "raised_not_found"}
        /\ outcome = "raised_listing" <=> ~trace[1].ok
        /\ Len(trace) = 1
        /\ NoDestinationQuery /\ NoCommands /\ NoWrites
        /\ \A i \in 1..Len(trace) : trace[i].kind # "read"
        /\ File = startFile
        /\ checkpoint = EmptyDoc

\* the listing was answered 200 without the repo, and no ledger file was created
C12_Witness ==
    /\ op = "run" /\ outcome = "raised_not_found"
    /\ ~startFile.exists /\ ~fileExists
IsPushOrFetchAt(i) ==
    trace[i].kind = "cmd" /\ trace[i].name \in {"fetch", "push", "push_mirror"}
IsCloneAt(i) ==
    trace[i].kind = "cmd" /\ trace[i].name \in {"clone", "clone_mirror"}
IsChdirRepoAt(i) == trace[i].kind = "chdir" /\ trace[i].name = "repo"

\* the clone step of the run did what the selector and the local directory ask for:
\* nothing when the directory was there, else only clone invocations of the kind of
\* the selector, ending with a zero exit unless an error was caught
CloneStepAsConfigured ==
    IF hadDir
    THEN \A i \in 1..Len(trace) : ~IsCloneAt(i)
    ELSE /\ \E i \in 1..Len(trace) : IsCloneAt(i)
         /\ \A i \in 1..Len(trace) :
               IsCloneAt(i) =>
                   trace[i].name = (IF cfg.branches.all THEN "clone_mirror" ELSE "clone")

\* C13: a clone-only run invokes no fetch and no push and never changes to the clone
\* directory, for selector "all" and for a branch list alike; its clone step and its
\* checkpoint happen as in a full run.
C13_CloneOnlyNeverPushes ==
    (op = "run" /\ cfg.only_clone) =>
        /\ \A i \in 1..Len(trace) : ~IsPushOrFetchAt(i) /\ ~IsChdirRepoAt(i)
        /\ cwd # "repo"
        /\ (pc = "idle" /\ DestinationVerified) =>
              /\ outcome = "checkpointed"
              /\ RecordCount = 1 /\ Has(ledger, Key)
              /\ CloneStepAsConfigured
              /\ failures = 0 => Len(CmdTrace) = (IF hadDir THEN 0 ELSE 1)

\* a clone-only run with a list of two branches cloned once and was checkpointed
C13_Witness ==
    /\ op = "run" /\ cfg.only_clone /\ pc = "idle" /\ outcome = "checkpointed"
    /\ ~hadDir /\ ~cfg.branches.all /\ Len(cfg.branches.list) = 2
    /\ Len(CmdTrace) = 1 /\ CmdTrace[1].name = "clone" /\ CmdTrace[1].ok
\* C14: a run that finds the local clone directory invokes no clone command, and in
\* "all" mode no fetch before its push; unless it is clone-only its push step runs in
\* that directory, starting with push --mirror or with the fetch of the first branch.
C14_ExistingCloneReused ==
    (op = "run" /\ hadDir) =>
        /\ \A i \in 1..Len(trace) : ~IsCloneAt(i)
        /\ pc = "retry" => rs.cmd.name \notin {"clone", "clone_mirror"}
        /\ cfg.branches.all => \A i \in 1..Len(CmdTrace) : CmdTrace[i].name = "push_mirror"
        /\ (pc = "idle" /\ DestinationVerified /\ ~cfg.only_clone) =>
              /\ \E i \in 1..Len(trace) : IsChdirRepoAt(i)
              /\ cfg.branches.all =>
                    Len(CmdTrace) >= 1 /\ CmdTrace[1].name = "push_mirror"
              /\ (~cfg.branches.all /\ Len(cfg.branches.list) >= 1) =>
                    /\ Len(CmdTrace) >= 1
                    /\ CmdTrace[1].name = "fetch"
                    /\ CmdTrace[1].src = cfg.branches.list[1]
        /\ (pc = "idle" /\ DestinationVerified /\ cfg.only_clone) => CmdTrace = << >>

\* an existing clone was pushed as a mirror by the single command of the run
C14_Witness ==
    /\ op = "run" /\ hadDir /\ pc = "idle" /\ outcome = "checkpointed"
    /\ cfg.branches.all /\ ~cfg.only_clone
    /\ CmdTrace = << Ev("cmd", "push_mirror", NoBranch, NoBranch, TRUE) >>
\* C15: a run that reached the clone/push step returns with the base migration
\* directory as working directory; the working directory is the clone directory only
\* from the start of the push step to the finally block, which is where the fetch and
\* push commands are invoked; a run that stops earlier leaves it unchanged.
C15_WorkingDirectory ==
    op = "run" =>
        /\ (pc = "idle" /\ DestinationVerified) => (outcome = "checkpointed" /\ cwd = "base")
        /\ (pc = "idle" /\ ~DestinationVerified) =>
              /\ outcome \in {"raised_listing", "raised_not_found", "skipped", "dest_missing"}
              /\ cwd = "start"
              /\ \A i \in 1..Len(trace) : trace[i].kind # "chdir"
        /\ cwd = "base" => pc = "idle"
        /\ cwd = "repo" =>
              /\ ~cfg.only_clone
              /\ pc \in {"retry", "branches", "branch_push", "finally"}
        /\ pc = "retry" =>
              cwd = (IF rs.cmd.name \in {"clone", "clone_mirror"} THEN "start" ELSE "repo")

\* a run whose push failed in the clone directory has returned in the base directory
C15_Witness ==
    /\ op = "run" /\ pc = "idle" /\ caught /\ cwd = "base"
    /\ \E i \in 1..Len(trace) : IsChdirRepoAt(i)
    /\ trace[Len(trace)] = ChdirEv("base")
\* C16: a retry_subprocess call whose command first exits zero on attempt k <= retries
\* invokes it exactly k times and returns without raising; the zero exit is its last
\* invocation, and its waits are 2^0, ..., 2^(k-2), one after each failed attempt.
C16_RetrySuccess ==
    rstatus = "returned" =>
        LET n == Len(CmdTrace)
        IN /\ inv \in 1..rs.retries
           /\ inv = rs.attempt + 1
           /\ Len(delays) = inv - 1
           /\ \A i \in 1..Len(delays) : delays[i] = 2 ^ (i - 1)
           /\ n >= inv
           /\ CmdTrace[n].ok
           /\ \A j \in (n - inv + 1)..(n - 1) : ~CmdTrace[j].ok
           /\ \A j \in (n - inv + 1)..n :
                 /\ CmdTrace[j].name = rs.cmd.name
                 /\ CmdTrace[j].src = rs.cmd.src
                 /\ CmdTrace[j].dst = rs.cmd.dst
           /\ rs.ret = "direct" => (pc = "idle" /\ outcome = "retry_returned" /\ n = inv)

\* a direct call succeeded on its third attempt after waiting 1 and 2
C16_Witness ==
    /\ op = "retry" /\ rstatus = "returned" /\ pc = "idle"
    /\ inv = 3 /\ delays = <<1, 2>> /\ rs.retries >= 3
\* C17: load_checkpoint returns exactly the mapping the last record dumped, with the
\* same collections, projects and repo lists in the same order; called when no file
\* exists it returns the empty mapping.
C17_RoundTrip ==
    op = "load" =>
        /\ outcome = "loaded"
        /\ checkpoint = lastDumped
        /\ DOMAIN checkpoint = DOMAIN lastDumped
        /\ \A c \in DOMAIN checkpoint :
              /\ DOMAIN checkpoint[c] = DOMAIN lastDumped[c]
              /\ \A p \in DOMAIN checkpoint[c] : checkpoint[c][p] = lastDumped[c][p]
        /\ ~startFile.exists => (DOMAIN checkpoint = {} /\ fileExists)
        /\ \A k \in everPersisted :
              /\ k[1] \in DOMAIN checkpoint
              /\ k[2] \in DOMAIN checkpoint[k[1]]
              /\ \E i \in 1..Len(checkpoint[k[1]][k[2]]) : checkpoint[k[1]][k[2]][i] = k[3]

\* a ledger of two collections with a list of two repos was loaded back
C17_Witness ==
    /\ op = "load" /\ startFile.exists
    /\ Cardinality(DOMAIN checkpoint) = 2
    /\ \E c \in DOMAIN checkpoint : \E p \in DOMAIN checkpoint[c] :
          checkpoint[c][p] \in {<<"r1", "r2">>, <<"r2", "r1">>}
\* C18 as stated: when the process dies during the rewrite of the ledger file by a
\* record, the file holds the complete document of before or of after the record,
\* never an empty or partial one, and every repo recorded earlier is still in it.
C18_Original ==
    outcome = "crashed_record" =>
        /\ fileExists /\ ~fileTorn
        /\ ledger = startFile.doc \/ ledger = JsonDump(lastDumped)
        /\ \A k \in everPersisted : Has(ledger, k)
\* the clone of the run failed terminally
CloneFailed ==
    \E i \in 1..Len(CmdTrace) :
        TerminalFailureAt(CmdTrace, i) /\ CmdTrace[i].name \in {"clone", "clone_mirror"}

\* C19: a fetch or push is invoked only when the local clone directory was there at
\* the clone step or the clone of this run exited zero before it; a run whose clone
\* failed terminally invokes no fetch and no push, and still records its repo.
C19_NoPushWithoutClone ==
    op = "run" =>
        /\ \A i \in 1..Len(trace) :
              IsPushOrFetchAt(i) =>
                  \/ hadDir
                  \/ \E j \in 1..(i - 1) : IsCloneAt(j) /\ trace[j].ok
        /\ CloneFailed =>
              /\ ~hadDir
              /\ \A i \in 1..Len(trace) : ~IsPushOrFetchAt(i) /\ ~IsChdirRepoAt(i)
              /\ Len(CmdTrace) = DefaultRetries
              /\ pc \in {"retry", "finally", "idle"}
              /\ pc = "idle" => (outcome = "checkpointed" /\ Has(ledger, Key))

\* a full run whose clone failed three times has returned with its repo recorded
C19_Witness ==
    /\ op = "run" /\ pc = "idle" /\ CloneFailed /\ ~cfg.only_clone
    /\ Has(ledger, Key) /\ ~Has(startFile.doc, Key)
\* at most 6 command invocations with selector "all", at most 3 + 6n with n branches
InvocationBound ==
    op = "run" =>
        Len(CmdTrace) <= (IF cfg.branches.all THEN 6 ELSE 3 + 6 * Len(cfg.branches.list))

\* C20: when every HTTP call and every command invocation returns, every run ends,
\* and with the retry bound of 3 it invokes at most 6 commands for selector "all" and
\* at most 3 + 6n for a list of n branches.
C20_BoundedTermination ==
    /\ []InvocationBound
    /\ (pc # "idle") ~> (pc = "idle")

\* a run of two branches has ended after 15 invocations: every command but the last
\* push exited zero on its third attempt, the last push failed three times
C20_Witness ==
    /\ op = "run" /\ pc = "idle" /\ outcome = "checkpointed"
    /\ ~cfg.branches.all /\ Len(cfg.branches.list) = 2
    /\ Len(CmdTrace) = 15
====
